---- MODULE Spec2Model ----
(***************************************************************************)
(* Model of the native memory primitives of dowdiness/arena:               *)
(*   src/cffi/c_bump.c  - BumpArena, a fixed-capacity bump allocator       *)
(*   src/cffi/c_gen.c   - GenArray, a fixed-length int32 array             *)
(* A handle is a host object (moonbit_make_external_object) whose          *)
(* finalizer the host runs at most once, when the handle has become        *)
(* unreachable.                                                            *)
(***************************************************************************)
EXTENDS Integers, Sequences, FiniteSets, TLC

(***************************************************************************)
(* Bounds of the model.                                                    *)
(***************************************************************************)
MaxCap == 10       \* largest "ordinary" capacity given to bump_create
MaxAllocs == 3     \* successful bump_alloc calls recorded per arena
MaxResets == 1     \* bump_reset calls per arena
MaxWrites == 2     \* write accessor calls per arena, gen_set calls per array
MaxLen == 3        \* largest length given to gen_create

(***************************************************************************)
(* int32_t: the values and the arithmetic of <stdint.h>.  Sums and         *)
(* differences are computed without leaving the 32-bit range; the *Ovf     *)
(* predicates say when the C operation overflows (undefined behaviour),    *)
(* and Add32/Sub32 give the two's-complement result a build then yields.   *)
(***************************************************************************)
MaxInt32 == 2147483647
MinInt32 == (-MaxInt32) - 1

AddOvf(a, b) == \/ (b > 0 /\ a > MaxInt32 - b)
                \/ (b < 0 /\ a < MinInt32 - b)

SubOvf(a, b) == \/ (b > 0 /\ a < MinInt32 + b)
                \/ (b < 0 /\ a > MaxInt32 + b)

Add32(a, b) ==
    IF b > 0 /\ a > MaxInt32 - b
    THEN ((a - MaxInt32) - 1) + ((b - MaxInt32) - 1)
    ELSE IF b < 0 /\ a < MinInt32 - b
         THEN ((a + MaxInt32) + 1) + ((b + MaxInt32) + 1)
         ELSE a + b

Sub32(a, b) ==
    IF b > 0 /\ a < MinInt32 + b
    THEN ((a + MaxInt32) + 1) + ((MaxInt32 - b) + 1)
    ELSE IF b < 0 /\ a > MaxInt32 + b
         THEN ((a - MaxInt32) - 1) - ((b + MaxInt32) + 1)
         ELSE a - b

\* C's % for a positive divisor: the result has the sign of the dividend.
CRem(a, b) == LET m == a % b IN IF a >= 0 \/ m = 0 THEN m ELSE m - b

(***************************************************************************)
(* Handles, heap blocks and the inputs callers pass.                       *)
(***************************************************************************)
NULL == 0
H1 == 1
H2 == 2
Handles == {H1, H2}
Blocks == {1, 2}              \* addresses calloc can return

\* Capacities given to bump_create: negative, zero, one byte, an ordinary buffer.
Capacities == {MinInt32, -1, 0, 1, MaxCap}

\* <<size, align>> pairs given to bump_alloc: the well-formed requests (powers
\* of two and other alignments, sizes that fit and sizes that cannot), and
\* requests with a zero or negative size or alignment.
Sizes == {1, 2, 4, 8, MaxInt32}
Aligns == {1, 3, 4}
BadRequests == {<<0, 1>>, <<1, 0>>, <<-1, 4>>, <<MinInt32, MinInt32>>}
Requests(h_cap) == ((Sizes \cup {h_cap}) \X Aligns) \cup BadRequests

VARIABLES
    st,        \* st[h]: "none" (not created), "live", "collected" (finalized by the host)
    base,      \* base[h]: BumpArena.base, NULL or a heap block
    offset,    \* offset[h]: BumpArena.offset
    capacity,  \* capacity[h]: BumpArena.capacity
    heap,      \* heap[b]: "unused", "live" or "freed"
    mem,       \* mem[b]: contents of block b: its nonzero bytes, as chars, by offset
    frees,     \* frees[h]: number of free() calls made on behalf of handle h
    hist,      \* hist[h]: the successful bump_alloc calls, oldest first
    epoch,     \* epoch[h]: number of bump_reset calls so far
    given,     \* given[h]: the capacity argument bump_create was called with
    written,   \* written[h]: the accessor writes no later write has touched
    writes,    \* writes[h]: number of write accessor calls so far
    bigEndian, \* the platform's byte order for int32_t
    gen,       \* gen[g]: the GenArray behind handle g, with its bookkeeping
    last,      \* the most recent call and what it returned
    ub         \* TRUE once a call had undefined behaviour

vars == <<st, base, offset, capacity, heap, mem, frees, hist, epoch, given,
          written, writes, bigEndian, gen, last, ub>>

NoCall == [op |-> "none", h |-> 0, a1 |-> 0, a2 |-> 0, pre |-> 0, ret |-> 0]

Call(op, h, a1, a2, pre, ret) ==
    [op |-> op, h |-> h, a1 |-> a1, a2 |-> a2, pre |-> pre, ret |-> ret]

EmptyBlock == [o \in {} |-> 0]

\* A GenArray handle before gen_create: data and length are the struct's
\* fields; asked is the length gen_create was given, shadow maps each index
\* set so far to the value last set there, frees counts free() calls and
\* sets counts gen_set calls.
NoGen == [st |-> "none", data |-> 0, length |-> 0, asked |-> 0,
          shadow |-> [i \in {} |-> 0], frees |-> 0, sets |-> 0]

InitArenas ==
    /\ st = [h \in Handles |-> "none"]
    /\ base = [h \in Handles |-> NULL]
    /\ offset = [h \in Handles |-> 0]
    /\ capacity = [h \in Handles |-> 0]
    /\ heap = [b \in Blocks |-> "unused"]
    /\ mem = [b \in Blocks |-> EmptyBlock]
    /\ frees = [h \in Handles |-> 0]
    /\ hist = [h \in Handles |-> <<>>]
    /\ epoch = [h \in Handles |-> 0]
    /\ given = [h \in Handles |-> 0]
    /\ written = [h \in Handles |-> {}]
    /\ writes = [h \in Handles |-> 0]
    /\ gen = [g \in Handles |-> NoGen]
    /\ last = NoCall
    /\ ub = FALSE

Init == InitArenas /\ bigEndian = FALSE

(***************************************************************************)
(* calloc and free.                                                        *)
(***************************************************************************)
\* A buffer obtained without zeroing: its first byte holds what was there before.
malloc_unzeroed(n) == [o \in {0} |-> 85]

\* calloc(1, n): a block of n bytes, every byte zero (no nonzero byte).
calloc(n) == EmptyBlock

\* free(p) on the heap map; freeing a block that is not live is a double free.
free(hp, p) == [hp EXCEPT ![p] = "freed"]

(***************************************************************************)
(* bump_create                                                             *)
(***************************************************************************)
\* A constructor that validates: a negative capacity is stored as 0.
stored_capacity_clamped(cap) == IF cap > 0 THEN cap ELSE 0

\* a->capacity = capacity: stored as given, negative values included.
stored_capacity(cap) == cap

bump_create(h, cap, addrs) ==
    /\ ~ub
    /\ UNCHANGED gen
    /\ st[h] = "none"
    /\ IF cap > 0
       THEN \E b \in addrs :
              /\ heap[b] # "live"
              /\ base' = [base EXCEPT ![h] = b]
              /\ heap' = [heap EXCEPT ![b] = "live"]
              /\ mem' = [mem EXCEPT ![b] = calloc(cap)]
       ELSE /\ base' = [base EXCEPT ![h] = NULL]
            /\ UNCHANGED <<heap, mem>>
    /\ offset' = [offset EXCEPT ![h] = 0]
    /\ capacity' = [capacity EXCEPT ![h] = stored_capacity(cap)]
    /\ st' = [st EXCEPT ![h] = "live"]
    /\ given' = [given EXCEPT ![h] = cap]
    /\ last' = Call("create", h, cap, 0, 0, 0)
    /\ UNCHANGED <<frees, hist, epoch, written, writes, bigEndian, ub>>

(***************************************************************************)
(* bump_destroy and bump_finalize                                          *)
(***************************************************************************)
\* A release that frees the buffer and leaves the pointer dangling.
release_dangling(h) ==
    IF base[h] # NULL
    THEN /\ ub' = (heap[base[h]] # "live")
         /\ heap' = free(heap, base[h])
         /\ mem' = [mem EXCEPT ![base[h]] = EmptyBlock]
         /\ frees' = [frees EXCEPT ![h] = @ + 1]
         /\ written' = [written EXCEPT ![h] = {}]
         /\ UNCHANGED base
    ELSE UNCHANGED <<ub, heap, mem, frees, base, written>>

\* The body shared by bump_destroy and bump_finalize:
\*   if (a->base) { free(a->base); a->base = NULL; }
release(h) ==
    IF base[h] # NULL
    THEN /\ ub' = (heap[base[h]] # "live")
         /\ heap' = free(heap, base[h])
         /\ mem' = [mem EXCEPT ![base[h]] = EmptyBlock]
         /\ frees' = [frees EXCEPT ![h] = @ + 1]
         /\ base' = [base EXCEPT ![h] = NULL]
         /\ written' = [written EXCEPT ![h] = {}]
    ELSE UNCHANGED <<ub, heap, mem, frees, base, written>>

bump_destroy(h) ==
    /\ ~ub
    /\ UNCHANGED gen
    /\ st[h] = "live"
    /\ release(h)
    /\ last' = Call("destroy", h, 0, 0, base[h], 0)
    /\ UNCHANGED <<st, offset, capacity, hist, epoch, given, writes, bigEndian>>

\* A finalizer that retires the handle and forgets the buffer.
bump_finalize_leaks(h) ==
    /\ ~ub
    /\ UNCHANGED gen
    /\ st[h] = "live"
    /\ st' = [st EXCEPT ![h] = "collected"]
    /\ last' = Call("finalize", h, 0, 0, base[h], 0)
    /\ UNCHANGED <<base, heap, mem, frees, written, ub>>
    /\ UNCHANGED <<offset, capacity, hist, epoch, given, writes, bigEndian>>

\* Run by the host when the handle has become unreachable: no call follows it.
bump_finalize(h) ==
    /\ ~ub
    /\ UNCHANGED gen
    /\ st[h] = "live"
    /\ release(h)
    /\ st' = [st EXCEPT ![h] = "collected"]
    /\ last' = Call("finalize", h, 0, 0, base[h], 0)
    /\ UNCHANGED <<offset, capacity, hist, epoch, given, writes, bigEndian>>

(***************************************************************************)
(* bump_alloc                                                              *)
(***************************************************************************)
AllocFail(off, ovf) == [ret |-> -1, offset |-> off, ovf |-> ovf]

\* No padding: the cursor is used as it stands.
padding_none(remainder, align) == 0

\* Padding added even when the cursor is already aligned.
padding_always(remainder, align) == Sub32(align, remainder)

\* int32_t padding = (remainder == 0) ? 0 : align - remainder;
padding_of(remainder, align) == IF remainder = 0 THEN 0 ELSE Sub32(align, remainder)

\* Off by one: a request that exactly fills the arena is refused.
too_big_exact(size, cap, aligned) == size >= Sub32(cap, aligned)

\* The size check left out.
too_big_never(size, cap, aligned) == FALSE

\* if (size > a->capacity - aligned) return -1;
too_big(size, cap, aligned) == size > Sub32(cap, aligned)

\* The cursor moved to the start of the region instead of its end.
bumped_to_start(aligned, size) == aligned

\* The cursor moved down by size instead of up.
bumped_back(aligned, size) == Sub32(aligned, size)

\* a->offset = aligned + size;
bumped(aligned, size) == Add32(aligned, size)

\* A bump_alloc that keeps the padding when the size check then fails.
alloc_commits_padding(off, cap, size, align) ==
    IF size <= 0 \/ align <= 0 THEN AllocFail(off, FALSE)
    ELSE LET remainder == CRem(off, align)
             padding == padding_of(remainder, align)
         IN  IF padding > Sub32(cap, off) THEN AllocFail(off, FALSE)
             ELSE LET aligned == Add32(off, padding)
                  IN  IF too_big(size, cap, aligned) THEN AllocFail(aligned, FALSE)
                      ELSE [ret |-> aligned, offset |-> bumped(aligned, size), ovf |-> FALSE]

\* A bump_alloc whose first check adds the padding to the cursor before
\* comparing with the capacity.
alloc_adds_first(off, cap, size, align) ==
    IF size <= 0 \/ align <= 0 THEN AllocFail(off, FALSE)
    ELSE LET remainder == CRem(off, align)
             padding == padding_of(remainder, align)
             aligned == Add32(off, padding)
             o1 == (remainder # 0 /\ SubOvf(align, remainder)) \/ AddOvf(off, padding)
         IN  IF aligned > cap THEN AllocFail(off, o1)
             ELSE LET o2 == o1 \/ SubOvf(cap, aligned)
                  IN  IF too_big(size, cap, aligned) THEN AllocFail(off, o2)
                      ELSE [ret |-> aligned,
                            offset |-> bumped(aligned, size),
                            ovf |-> o2 \/ AddOvf(aligned, size)]

\* The outcome of bump_alloc on an arena with cursor off and capacity cap:
\* the value returned, the new cursor, and whether an intermediate overflowed.
alloc(off, cap, size, align) ==
    IF size <= 0 \/ align <= 0 THEN AllocFail(off, FALSE)
    ELSE LET remainder == CRem(off, align)
             padding == padding_of(remainder, align)
             o1 == (remainder # 0 /\ SubOvf(align, remainder)) \/ SubOvf(cap, off)
         IN  IF padding > Sub32(cap, off) THEN AllocFail(off, o1)
             ELSE LET aligned == Add32(off, padding)
                      o2 == o1 \/ AddOvf(off, padding) \/ SubOvf(cap, aligned)
                  IN  IF too_big(size, cap, aligned) THEN AllocFail(off, o2)
                      ELSE [ret |-> aligned,
                            offset |-> bumped(aligned, size),
                            ovf |-> o2 \/ AddOvf(aligned, size)]

bump_alloc(h, size, align) ==
    /\ ~ub
    /\ UNCHANGED gen
    /\ st[h] = "live"
    /\ Len(hist[h]) < MaxAllocs
    /\ LET r == alloc(offset[h], capacity[h], size, align) IN
         /\ offset' = [offset EXCEPT ![h] = r.offset]
         /\ ub' = r.ovf
         /\ hist' = IF r.ret # -1
                    THEN [hist EXCEPT ![h] = Append(@,
                            [start |-> r.ret, size |-> size, epoch |-> epoch[h]])]
                    ELSE hist
         /\ last' = Call("alloc", h, size, align, offset[h], r.ret)
    /\ UNCHANGED <<st, base, capacity, heap, mem, frees, epoch, given, written,
                   writes, bigEndian>>

(***************************************************************************)
(* bump_reset, bump_capacity, bump_used                                    *)
(***************************************************************************)
\* A reset that leaves the cursor where it is.
reset_noop(off) == off

\* a->offset = 0;
reset(off) == 0

\* A reset that also clears the buffer.
bump_reset_zeroing(h) ==
    /\ ~ub
    /\ UNCHANGED gen
    /\ st[h] = "live"
    /\ epoch[h] < MaxResets
    /\ offset' = [offset EXCEPT ![h] = reset(offset[h])]
    /\ epoch' = [epoch EXCEPT ![h] = @ + 1]
    /\ mem' = IF base[h] # NULL THEN [mem EXCEPT ![base[h]] = EmptyBlock] ELSE mem
    /\ last' = Call("reset", h, 0, 0, offset[h], 0)
    /\ UNCHANGED <<st, base, capacity, heap, frees, hist, given, written,
                   writes, bigEndian, ub>>

bump_reset(h) ==
    /\ ~ub
    /\ UNCHANGED gen
    /\ st[h] = "live"
    /\ epoch[h] < MaxResets
    /\ offset' = [offset EXCEPT ![h] = reset(offset[h])]
    /\ epoch' = [epoch EXCEPT ![h] = @ + 1]
    /\ last' = Call("reset", h, 0, 0, offset[h], 0)
    /\ UNCHANGED <<st, base, capacity, heap, mem, frees, hist, given, written,
                   writes, bigEndian, ub>>

\* The pure accessors.
bump_capacity(h) == capacity[h]

bump_used(h) == offset[h]

(***************************************************************************)
(* Memory: a block holds chars (signed, -128..127); only its nonzero bytes *)
(* are kept, so an offset absent from the map holds 0.                     *)
(***************************************************************************)
\* (char)(unsigned char)val: the low eight bits of val, as a char.
to_char(val) == LET u == val % 256 IN IF u >= 128 THEN u - 256 ELSE u

\* (unsigned char)c: the byte 0..255 a char holds.
to_uchar(c) == c % 256

load(m, o) == IF o \in DOMAIN m THEN m[o] ELSE 0

store(m, o, c) ==
    IF c = 0
    THEN [x \in DOMAIN m \ {o} |-> m[x]]
    ELSE [x \in DOMAIN m \cup {o} |-> IF x = o THEN c ELSE m[x]]

\* The object representation of an int32_t: four bytes 0..255, lowest address
\* first, in the platform's byte order (two's complement).
Reverse(q) == [i \in 1..Len(q) |-> q[Len(q) + 1 - i]]

i32_bytes(val, big) ==
    LET w == IF val >= 0 THEN val ELSE (val + MaxInt32) + 1
        le == << w % 256,
                 (w \div 256) % 256,
                 (w \div 65536) % 256,
                 (w \div 16777216) + (IF val < 0 THEN 128 ELSE 0) >>
    IN  IF big THEN Reverse(le) ELSE le

i32_value(bytes, big) ==
    LET le == IF big THEN Reverse(bytes) ELSE bytes
        w == le[1] + 256 * le[2] + 65536 * le[3] + 16777216 * (le[4] % 128)
    IN  IF le[4] >= 128 THEN (w - MaxInt32) - 1 ELSE w

\* memcpy(base + o, src, n) and memcpy(dst, base + o, n), n = Len(bytes).
RECURSIVE memcpy_to(_, _, _)
memcpy_to(m, o, bytes) ==
    IF bytes = <<>> THEN m
    ELSE memcpy_to(store(m, o, to_char(Head(bytes))), o + 1, Tail(bytes))

memcpy_from(m, o, n) == [i \in 1..n |-> to_uchar(load(m, o + i - 1))]

(***************************************************************************)
(* The raw accessors.  They check nothing: an access that is not inside a  *)
(* live buffer is undefined behaviour.                                     *)
(***************************************************************************)
InBuffer(h, o, n) ==
    /\ st[h] = "live"
    /\ base[h] # NULL
    /\ heap[base[h]] = "live"
    /\ 0 <= o
    /\ capacity[h] >= n
    /\ o <= capacity[h] - n

Overlaps(w, o, n) == w.off < o + n /\ o < w.off + w.n

\* The writes still intact after n bytes at o have been overwritten.
Untouched(ws, o, n) == {w \in ws : ~Overlaps(w, o, n)}

\* What a build may hand back from a read that has undefined behaviour.
Garbage == {0, -1, MinInt32}

\* memcpy of two bytes instead of four.
write_i32_short(m, o, val, big) == memcpy_to(m, o, SubSeq(i32_bytes(val, big), 1, 2))

\* memcpy of five bytes instead of four: one byte past the int32_t.
write_i32_wide(m, o, val, big) ==
    memcpy_to(m, o, i32_bytes(val, big) \o <<255>>)

write_i32(m, o, val, big) == memcpy_to(m, o, i32_bytes(val, big))

read_i32(m, o, big) == i32_value(memcpy_from(m, o, 4), big)

write_byte(m, o, val) == store(m, o, to_char(val))

\* The char returned without the cast to unsigned char.
read_byte_signed(m, o) == load(m, o)

read_byte(m, o) == to_uchar(load(m, o))

bump_write_i32(h, o, val) ==
    /\ ~ub
    /\ UNCHANGED gen
    /\ st[h] = "live"
    /\ writes[h] < MaxWrites
    /\ writes' = [writes EXCEPT ![h] = @ + 1]
    /\ last' = Call("write_i32", h, o, val, offset[h], 0)
    /\ IF InBuffer(h, o, 4)
       THEN /\ mem' = [mem EXCEPT ![base[h]] = write_i32(@, o, val, bigEndian)]
            /\ written' = [written EXCEPT ![h] = Untouched(@, o, 4) \cup
                              {[kind |-> "i32", off |-> o, n |-> 4, val |-> val]}]
            /\ ub' = FALSE
       ELSE /\ ub' = TRUE
            /\ UNCHANGED <<mem, written>>
    /\ UNCHANGED <<st, base, offset, capacity, heap, frees, hist, epoch, given, bigEndian>>

bump_read_i32(h, o) ==
    /\ ~ub
    /\ UNCHANGED gen
    /\ st[h] = "live"
    /\ IF InBuffer(h, o, 4)
       THEN /\ last' = Call("read_i32", h, o, 0, offset[h], read_i32(mem[base[h]], o, bigEndian))
            /\ ub' = FALSE
       ELSE /\ \E g \in Garbage : last' = Call("read_i32", h, o, 0, offset[h], g)
            /\ ub' = TRUE
    /\ UNCHANGED <<st, base, offset, capacity, heap, mem, frees, hist, epoch, given,
                   written, writes, bigEndian>>

bump_write_byte(h, o, val) ==
    /\ ~ub
    /\ UNCHANGED gen
    /\ st[h] = "live"
    /\ writes[h] < MaxWrites
    /\ writes' = [writes EXCEPT ![h] = @ + 1]
    /\ last' = Call("write_byte", h, o, val, offset[h], 0)
    /\ IF InBuffer(h, o, 1)
       THEN /\ mem' = [mem EXCEPT ![base[h]] = write_byte(@, o, val)]
            /\ written' = [written EXCEPT ![h] = Untouched(@, o, 1) \cup
                              {[kind |-> "byte", off |-> o, n |-> 1, val |-> val]}]
            /\ ub' = FALSE
       ELSE /\ ub' = TRUE
            /\ UNCHANGED <<mem, written>>
    /\ UNCHANGED <<st, base, offset, capacity, heap, frees, hist, epoch, given, bigEndian>>

bump_read_byte(h, o) ==
    /\ ~ub
    /\ UNCHANGED gen
    /\ st[h] = "live"
    /\ IF InBuffer(h, o, 1)
       THEN /\ last' = Call("read_byte", h, o, 0, offset[h], read_byte(mem[base[h]], o))
            /\ ub' = FALSE
       ELSE /\ \E g \in Garbage : last' = Call("read_byte", h, o, 0, offset[h], g)
            /\ ub' = TRUE
    /\ UNCHANGED <<st, base, offset, capacity, heap, mem, frees, hist, epoch, given,
                   written, writes, bigEndian>>

(***************************************************************************)
(* A double is kept as its 64-bit object representation, the pair          *)
(* <<high word, low word>> of int32_t; its eight bytes follow the          *)
(* platform's byte order like those of an int32_t.                         *)
(***************************************************************************)
f64_bytes(val, big) ==
    IF big THEN i32_bytes(val[1], TRUE) \o i32_bytes(val[2], TRUE)
    ELSE i32_bytes(val[2], FALSE) \o i32_bytes(val[1], FALSE)

f64_value(bytes, big) ==
    IF big THEN << i32_value(SubSeq(bytes, 1, 4), TRUE), i32_value(SubSeq(bytes, 5, 8), TRUE) >>
    ELSE << i32_value(SubSeq(bytes, 5, 8), FALSE), i32_value(SubSeq(bytes, 1, 4), FALSE) >>

write_f64(m, o, val, big) == memcpy_to(m, o, f64_bytes(val, big))

read_f64(m, o, big) == f64_value(memcpy_from(m, o, 8), big)

bump_write_f64(h, o, val) ==
    /\ ~ub
    /\ UNCHANGED gen
    /\ st[h] = "live"
    /\ writes[h] < MaxWrites
    /\ writes' = [writes EXCEPT ![h] = @ + 1]
    /\ last' = Call("write_f64", h, o, val, offset[h], 0)
    /\ IF InBuffer(h, o, 8)
       THEN /\ mem' = [mem EXCEPT ![base[h]] = write_f64(@, o, val, bigEndian)]
            /\ written' = [written EXCEPT ![h] = Untouched(@, o, 8) \cup
                              {[kind |-> "f64", off |-> o, n |-> 8, val |-> val]}]
            /\ ub' = FALSE
       ELSE /\ ub' = TRUE
            /\ UNCHANGED <<mem, written>>
    /\ UNCHANGED <<st, base, offset, capacity, heap, frees, hist, epoch, given, bigEndian>>

bump_read_f64(h, o) ==
    /\ ~ub
    /\ UNCHANGED gen
    /\ st[h] = "live"
    /\ IF InBuffer(h, o, 8)
       THEN /\ last' = Call("read_f64", h, o, 0, offset[h], read_f64(mem[base[h]], o, bigEndian))
            /\ ub' = FALSE
       ELSE /\ \E g \in Garbage : last' = Call("read_f64", h, o, 0, offset[h], <<g, g>>)
            /\ ub' = TRUE
    /\ UNCHANGED <<st, base, offset, capacity, heap, mem, frees, hist, epoch, given,
                   written, writes, bigEndian>>

(***************************************************************************)
(* GenArray (src/cffi/c_gen.c): length int32_t elements in one calloc'd    *)
(* block, element i in the four bytes at byte offset 4 * i.                *)
(***************************************************************************)
arenaVars == <<st, base, offset, capacity, frees, hist, epoch, given, written,
               writes, bigEndian>>

\* Indexing by bytes instead of elements.
elem_offset_bytes(index) == index

\* g->data[index]: the byte offset of element index, sizeof(int32_t) each.
elem_offset(index) == 4 * index

gen_length(g) == gen[g].length

InArray(g, index) ==
    /\ gen[g].st = "live"
    /\ gen[g].data # NULL
    /\ heap[gen[g].data] = "live"
    /\ 0 <= index
    /\ index < gen[g].length

gen_create(g, length, addrs) ==
    /\ ~ub
    /\ gen[g].st = "none"
    /\ IF length > 0
       THEN \E b \in addrs :
              /\ heap[b] # "live"
              /\ heap' = [heap EXCEPT ![b] = "live"]
              /\ mem' = [mem EXCEPT ![b] = calloc(4 * length)]
              /\ gen' = [gen EXCEPT ![g] = [@ EXCEPT !.st = "live", !.data = b,
                                               !.length = length, !.asked = length]]
       ELSE /\ gen' = [gen EXCEPT ![g] = [@ EXCEPT !.st = "live", !.data = NULL,
                                               !.length = length, !.asked = length]]
            /\ UNCHANGED <<heap, mem>>
    /\ last' = Call("gen_create", g, length, 0, 0, 0)
    /\ UNCHANGED <<arenaVars, ub>>

\* A release that frees the data and leaves the pointer dangling.
gen_release_dangling(g) ==
    IF gen[g].data # NULL
    THEN /\ ub' = (heap[gen[g].data] # "live")
         /\ heap' = free(heap, gen[g].data)
         /\ mem' = [mem EXCEPT ![gen[g].data] = EmptyBlock]
         /\ gen' = [gen EXCEPT ![g] = [@ EXCEPT !.frees = @ + 1]]
    ELSE UNCHANGED <<ub, heap, mem, gen>>

\* The body of gen_destroy (gen_finalize has the same one):
\*   if (g->data) { free(g->data); g->data = NULL; }
gen_release(g) ==
    IF gen[g].data # NULL
    THEN /\ ub' = (heap[gen[g].data] # "live")
         /\ heap' = free(heap, gen[g].data)
         /\ mem' = [mem EXCEPT ![gen[g].data] = EmptyBlock]
         /\ gen' = [gen EXCEPT ![g] = [@ EXCEPT !.data = NULL, !.frees = @ + 1]]
    ELSE UNCHANGED <<ub, heap, mem, gen>>

gen_destroy(g) ==
    /\ ~ub
    /\ gen[g].st = "live"
    /\ gen_release(g)
    /\ last' = Call("gen_destroy", g, 0, 0, gen[g].data, 0)
    /\ UNCHANGED arenaVars

\* Run by the host when the handle has become unreachable: no call follows it.
gen_finalize(g) ==
    /\ ~ub
    /\ gen[g].st = "live"
    /\ last' = Call("gen_finalize", g, 0, 0, gen[g].data, 0)
    /\ IF gen[g].data # NULL
       THEN /\ ub' = (heap[gen[g].data] # "live")
            /\ heap' = free(heap, gen[g].data)
            /\ mem' = [mem EXCEPT ![gen[g].data] = EmptyBlock]
            /\ gen' = [gen EXCEPT ![g] = [@ EXCEPT !.st = "collected", !.data = NULL,
                                             !.frees = @ + 1]]
       ELSE /\ gen' = [gen EXCEPT ![g] = [@ EXCEPT !.st = "collected"]]
            /\ UNCHANGED <<ub, heap, mem>>
    /\ UNCHANGED arenaVars

\* return g->data[index];
gen_get(g, index) ==
    /\ ~ub
    /\ gen[g].st = "live"
    /\ IF InArray(g, index)
       THEN /\ last' = Call("gen_get", g, index, 0, 0,
                            read_i32(mem[gen[g].data], elem_offset(index), bigEndian))
            /\ ub' = FALSE
       ELSE /\ \E v \in Garbage : last' = Call("gen_get", g, index, 0, 0, v)
            /\ ub' = TRUE
    /\ UNCHANGED <<arenaVars, heap, mem, gen>>

\* g->data[index] = val;
gen_set(g, index, val) ==
    /\ ~ub
    /\ gen[g].st = "live"
    /\ gen[g].sets < MaxWrites
    /\ last' = Call("gen_set", g, index, val, 0, 0)
    /\ IF InArray(g, index)
       THEN /\ mem' = [mem EXCEPT ![gen[g].data] =
                          write_i32(@, elem_offset(index), val, bigEndian)]
            /\ gen' = [gen EXCEPT ![g] =
                          [@ EXCEPT !.sets = @ + 1,
                                    !.shadow = [i \in DOMAIN @ \cup {index} |->
                                                  IF i = index THEN val ELSE @[i]]]]
            /\ ub' = FALSE
       ELSE /\ gen' = [gen EXCEPT ![g] = [@ EXCEPT !.sets = @ + 1]]
            /\ ub' = TRUE
            /\ UNCHANGED mem
    /\ UNCHANGED <<arenaVars, heap>>

(***************************************************************************)
(* One arena: creation, allocation, reset, the pure accessors, release.    *)
(***************************************************************************)
Next ==
    \/ \E c \in Capacities : bump_create(H1, c, {1})
    \/ \E rq \in Requests(capacity[H1]) : bump_alloc(H1, rq[1], rq[2])
    \/ bump_reset(H1)
    \/ bump_destroy(H1)
    \/ bump_finalize(H1)

Spec == Init /\ [][Next]_vars

(***************************************************************************)
(* One arena used as a scratch buffer: the raw accessors at offsets inside *)
(* and outside the buffer, on either byte order.                           *)
(***************************************************************************)
I32Values == {0, -1, 16909060, MinInt32, MaxInt32}
ByteValues == {0, 128, 255, 256, -1}
I32Offsets == {0, 2, MaxCap - 4, MaxCap - 3}
ByteOffsets == {0, 3, MaxCap}

InitMem == InitArenas /\ bigEndian \in BOOLEAN

NextMem ==
    \/ bump_create(H1, MaxCap, {1})
    \/ \E o \in I32Offsets, v \in I32Values : bump_write_i32(H1, o, v)
    \/ \E o \in I32Offsets : bump_read_i32(H1, o)
    \/ \E o \in ByteOffsets, v \in ByteValues : bump_write_byte(H1, o, v)
    \/ \E o \in ByteOffsets : bump_read_byte(H1, o)
    \/ bump_destroy(H1)
    \/ bump_finalize(H1)

SpecMem == InitMem /\ [][NextMem]_vars

(***************************************************************************)
(* Two arenas sharing the heap: creation, use and release interleaved.     *)
(***************************************************************************)
MultiCapacities == {0, 4}
MultiRequests == {<<4, 1>>, <<1, 4>>}

NextMulti ==
    \/ \E h \in Handles, c \in MultiCapacities : bump_create(h, c, Blocks)
    \/ \E h \in Handles, rq \in MultiRequests : bump_alloc(h, rq[1], rq[2])
    \/ \E h \in Handles : bump_write_byte(h, 0, 255)
    \/ \E h \in Handles : bump_destroy(h)
    \/ \E h \in Handles : bump_finalize(h)

SpecMulti == Init /\ [][NextMulti]_vars

(***************************************************************************)
(* One GenArray: creation with lengths below, at and above zero, get and   *)
(* set at indices inside and outside the array, release.                   *)
(***************************************************************************)
Lengths == {-1, 0, 1, MaxLen}
Indices == {-1, 0, 1, MaxLen - 1, MaxLen}
ElemValues == {0, -1, 16909060, MinInt32}

NextGen ==
    \/ \E n \in Lengths : gen_create(H1, n, {1})
    \/ \E i \in Indices : gen_get(H1, i)
    \/ \E i \in Indices, v \in ElemValues : gen_set(H1, i, v)
    \/ gen_destroy(H1)
    \/ gen_finalize(H1)

SpecGen == InitMem /\ [][NextGen]_vars

(***************************************************************************)
(* One arena used the way a caller uses it: allocations, writes and reads  *)
(* of the three widths at offsets the allocations returned, a reset,       *)
(* release.                                                                *)
(***************************************************************************)
UseCapacities == {-1, MaxCap}
UseRequests == {<<4, 4>>, <<8, 1>>, <<MaxCap, 3>>}
UseOffsets == {0, 4}
F64Value == <<1069128089, -1717986918>>   \* 0.1

NextUse ==
    \/ \E c \in UseCapacities : bump_create(H1, c, {1})
    \/ \E rq \in UseRequests : bump_alloc(H1, rq[1], rq[2])
    \/ bump_reset(H1)
    \/ \E o \in UseOffsets : bump_write_i32(H1, o, 16909060)
    \/ \E o \in UseOffsets : bump_read_i32(H1, o)
    \/ bump_write_f64(H1, 0, F64Value)
    \/ bump_read_f64(H1, 0)
    \/ \E o \in UseOffsets : bump_write_byte(H1, o, 255)
    \/ bump_read_byte(H1, 4)
    \/ bump_destroy(H1)
    \/ bump_finalize(H1)

SpecUse == InitMem /\ [][NextUse]_vars

(***************************************************************************)
(* One arena at the ends of int32_t: capacities and requests at and next   *)
(* to the extremes.                                                        *)
(***************************************************************************)
BigCapacities == {MinInt32, -1, 0, 1, MaxInt32 - 1, MaxInt32}
BigRequests == {<<1, 1>>, <<1, 4>>, <<2, 3>>, <<MaxInt32 - 1, 1>>, <<MaxInt32, 1>>,
                <<1, MaxInt32>>, <<MaxInt32, MaxInt32>>, <<MinInt32, MinInt32>>,
                <<0, 1>>, <<1, 0>>, <<-1, MaxInt32>>}

NextBig ==
    \/ \E c \in BigCapacities : bump_create(H1, c, {1})
    \/ \E rq \in BigRequests : bump_alloc(H1, rq[1], rq[2])
    \/ bump_reset(H1)
    \/ bump_destroy(H1)
    \/ bump_finalize(H1)

SpecBig == Init /\ [][NextBig]_vars

(***************************************************************************)
(* Two arenas under a host that does collect: once a handle exists, its    *)
(* finalizer is eventually run (it stays enabled until it has run).        *)
(***************************************************************************)
SpecLive ==
    /\ Init
    /\ [][NextMulti]_vars
    /\ \A h \in Handles : WF_vars(bump_finalize(h))

(***************************************************************************)
(* Vocabulary of the properties.                                           *)
(***************************************************************************)
\* The region [r.start, r.start + r.size) lies within [0, cap).
InRange(r, cap) ==
    /\ r.start >= 0
    /\ r.size > 0
    /\ cap >= 0
    /\ r.start <= cap
    /\ r.size <= cap - r.start

\* The regions r and q share no byte.
Disjoint(r, q) ==
    \/ (q.start >= r.start /\ r.size <= q.start - r.start)
    \/ (r.start >= q.start /\ q.size <= r.start - q.start)

\* The smallest multiple of al that is >= off.
RoundUp(off, al) == CHOOSE m \in off..(off + (al - 1)) : m % al = 0

\* aligned + size > cap, for aligned >= 0 and size > 0.
Exceeds(aligned, size, cap) ==
    \/ cap < 0
    \/ aligned > cap
    \/ size > cap - aligned

Created(h) == st[h] # "none"

(***************************************************************************)
(* C1. The successful bump_alloc calls with no reset between them return   *)
(* pairwise disjoint regions, each inside [0, capacity), and every value   *)
(* returned is a multiple of the alignment asked for.                      *)
(***************************************************************************)
C1_DisjointAlignedInRange ==
    \A h \in Handles :
      /\ \A i \in DOMAIN hist[h] : InRange(hist[h][i], capacity[h])
      /\ \A i, j \in DOMAIN hist[h] :
           (i < j /\ hist[h][i].epoch = hist[h][j].epoch)
             => Disjoint(hist[h][i], hist[h][j])
      /\ (last.op = "alloc" /\ last.h = h /\ last.ret # -1)
           => (last.a2 > 0 /\ last.ret % last.a2 = 0)

\* Three regions of one epoch, the second placed after padding.
C1_Witness ==
    /\ Len(hist[H1]) = 3
    /\ hist[H1][1].epoch = hist[H1][3].epoch
    /\ hist[H1][2].start > hist[H1][1].start + hist[H1][1].size
    /\ last.op = "alloc" /\ last.ret = hist[H1][3].start /\ last.a2 = 3

(***************************************************************************)
(* C2. bump_alloc returns -1 exactly when size <= 0, or align <= 0, or the *)
(* cursor rounded up to align, plus size, exceeds capacity; otherwise it   *)
(* succeeds.  A request that exactly fills the rest succeeds, one byte at  *)
(* capacity - 1 succeeds, and with capacity 10 and 8 bytes used            *)
(* allocate(4, 1) returns -1 while allocate(2, 1) returns 8.               *)
(***************************************************************************)
C2_FailsExactlyWhen ==
    last.op = "alloc" =>
      LET size == last.a1
          align == last.a2
          off == last.pre
          cap == capacity[last.h]
      IN  /\ (last.ret = -1) <=>
                (size <= 0 \/ align <= 0 \/ Exceeds(RoundUp(off, align), size, cap))
          /\ last.ret # -1 => last.ret >= 0
          /\ (size > 0 /\ align > 0 /\ cap >= 0 /\ RoundUp(off, align) <= cap
                /\ size = cap - RoundUp(off, align)) => last.ret # -1
          /\ (size = 1 /\ align = 1 /\ cap > 0 /\ off = cap - 1) => last.ret = cap - 1
          /\ (cap = 10 /\ off = 8 /\ size = 4 /\ align = 1) => last.ret = -1
          /\ (cap = 10 /\ off = 8 /\ size = 2 /\ align = 1) => last.ret = 8

\* allocate(2, 1) on capacity 10 with 8 used: the request that exactly fills.
C2_Witness ==
    /\ last.op = "alloc" /\ last.h = H1
    /\ capacity[H1] = 10 /\ last.pre = 8
    /\ last.a1 = 2 /\ last.a2 = 1 /\ last.ret = 8
    /\ offset[H1] = capacity[H1]

(***************************************************************************)
(* C3. As stated: 0 <= offset <= capacity in every state of every created  *)
(* arena, whatever the capacity given.  It fails for a negative capacity.  *)
(***************************************************************************)
C3_OffsetWithinCapacity ==
    \A h \in Handles : Created(h) => (0 <= offset[h] /\ offset[h] <= capacity[h])

(***************************************************************************)
(* C3, amended.  0 <= offset always; offset <= capacity when the capacity  *)
(* given is >= 0; offset stays 0 when the capacity given is negative.      *)
(***************************************************************************)
C3_OffsetWithinNonNegativeCapacity ==
    \A h \in Handles :
      Created(h) =>
        /\ 0 <= offset[h]
        /\ capacity[h] >= 0 => offset[h] <= capacity[h]
        /\ capacity[h] < 0 => offset[h] = 0

\* A full arena of positive capacity, after a reset and three allocations.
C3_Witness ==
    /\ st[H1] = "live" /\ capacity[H1] > 1
    /\ offset[H1] = capacity[H1]
    /\ epoch[H1] > 0 /\ Len(hist[H1]) = 3
    /\ last.op = "alloc"

(***************************************************************************)
(* C4. Releases of one handle (any number of bump_destroy calls and the    *)
(* host's bump_finalize) free its buffer at most once: the first release   *)
(* frees it and sets base to NULL, a later release changes nothing, and no *)
(* release changes the fields or the buffer of another handle.             *)
(***************************************************************************)
C4_ReleaseFreesOnce ==
    [][\A h \in Handles :
         (last'.op \in {"destroy", "finalize"} /\ last'.h = h) =>
           /\ frees'[h] <= 1
           /\ base'[h] = NULL
           /\ ~ub'
           /\ base[h] # NULL =>
                /\ frees'[h] = frees[h] + 1
                /\ heap[base[h]] = "live"
                /\ heap'[base[h]] = "freed"
           /\ base[h] = NULL => (frees' = frees /\ heap' = heap /\ mem' = mem)
           /\ \A g \in Handles \ {h} :
                /\ st'[g] = st[g]
                /\ base'[g] = base[g]
                /\ offset'[g] = offset[g]
                /\ capacity'[g] = capacity[g]
                /\ base[g] # NULL =>
                     /\ base[g] # base[h]
                     /\ heap'[base[g]] = "live"
                     /\ mem'[base[g]] = mem[base[g]]
      ]_vars

\* The finalizer running after an explicit destroy already freed the buffer,
\* while the other handle holds a live buffer with a byte written to it.
C4_Witness ==
    /\ last.op = "finalize" /\ last.h = H1 /\ last.pre = NULL
    /\ frees[H1] = 1
    /\ st[H2] = "live" /\ base[H2] # NULL
    /\ heap[base[H2]] = "live"
    /\ load(mem[base[H2]], 0) # 0

(***************************************************************************)
(* C5. As stated: every region ever returned by bump_alloc on an arena,    *)
(* bump_reset calls included, is disjoint from every other region ever     *)
(* returned, and lies within [0, capacity).  It fails after a reset.       *)
(***************************************************************************)
C5_AllRangesEverDisjoint ==
    \A h \in Handles :
      /\ \A i \in DOMAIN hist[h] : InRange(hist[h][i], capacity[h])
      /\ \A i, j \in DOMAIN hist[h] : i < j => Disjoint(hist[h][i], hist[h][j])

(***************************************************************************)
(* C5, amended.  Every region ever returned lies within [0, capacity), and *)
(* two regions that share a byte were returned on different sides of a     *)
(* bump_reset: the later one after a reset that followed the earlier one.  *)
(***************************************************************************)
C5_RangesOverlapOnlyAcrossReset ==
    \A h \in Handles :
      /\ \A i \in DOMAIN hist[h] : InRange(hist[h][i], capacity[h])
      /\ \A i, j \in DOMAIN hist[h] :
           (i < j /\ ~Disjoint(hist[h][i], hist[h][j]))
             => hist[h][i].epoch < hist[h][j].epoch

\* Two regions sharing a byte, one returned before a reset and one after.
C5_Witness ==
    \E i, j \in DOMAIN hist[H1] :
      /\ i < j
      /\ ~Disjoint(hist[H1][i], hist[H1][j])
      /\ hist[H1][i].start # hist[H1][j].start

(***************************************************************************)
(* C6. After bump_reset, in any state of the arena, used() = 0, and for    *)
(* capacity > 0 bump_alloc(capacity, 1) right after the reset returns 0:   *)
(* offsets returned before the reset are returned again.                   *)
(***************************************************************************)
\* No region has been returned since the last reset, but for the one the
\* call recorded in last returned.
FirstSinceReset(h) ==
    /\ epoch[h] > 0
    /\ \A i \in DOMAIN hist[h] :
         hist[h][i].epoch = epoch[h] => (i = Len(hist[h]) /\ last.ret # -1)

C6_ResetReusesFullCapacity ==
    /\ last.op = "reset" =>
         /\ bump_used(last.h) = 0
         /\ capacity[last.h] > 0 =>
              LET r == alloc(offset[last.h], capacity[last.h], capacity[last.h], 1)
              IN  r.ret = 0 /\ r.offset = capacity[last.h]
    /\ (/\ last.op = "alloc"
        /\ FirstSinceReset(last.h)
        /\ capacity[last.h] > 0
        /\ last.a1 = capacity[last.h]
        /\ last.a2 = 1) => (last.ret = 0 /\ bump_used(last.h) = capacity[last.h])

\* The whole capacity handed out after a reset, offset 0 for the second time.
C6_Witness ==
    /\ last.op = "alloc" /\ last.h = H1
    /\ FirstSinceReset(H1)
    /\ last.a1 = capacity[H1] /\ last.a2 = 1 /\ last.ret = 0
    /\ \E i \in DOMAIN hist[H1] :
         hist[H1][i].epoch < epoch[H1] /\ hist[H1][i].start = 0

(***************************************************************************)
(* C7. An arena created with capacity <= 0 has no buffer, reports the      *)
(* capacity it was given and used() = 0, and every bump_alloc on it        *)
(* returns -1, whatever the size and alignment and whatever came before.   *)
(***************************************************************************)
C7_NonPositiveCapacityNeverAllocates ==
    \A h \in Handles :
      (Created(h) /\ given[h] <= 0) =>
        /\ base[h] = NULL
        /\ bump_capacity(h) = given[h]
        /\ bump_used(h) = 0
        /\ hist[h] = <<>>
        /\ (last.op = "alloc" /\ last.h = h) => last.ret = -1
        /\ \A rq \in Requests(capacity[h]) :
             alloc(offset[h], capacity[h], rq[1], rq[2]).ret = -1

\* A well-formed request refused by an arena of the most negative capacity,
\* after a reset.
C7_Witness ==
    /\ given[H1] = MinInt32
    /\ epoch[H1] > 0
    /\ last.op = "alloc" /\ last.a1 = MaxInt32 /\ last.a2 = 1 /\ last.ret = -1

(***************************************************************************)
(* C8. Right after bump_create(capacity) with capacity > 0: used() = 0,    *)
(* capacity() = capacity, the buffer is present, and every byte at the     *)
(* offsets 0 .. capacity-1 reads as 0.                                     *)
(***************************************************************************)
C8_FreshArenaZeroed ==
    (last.op = "create" /\ last.a1 > 0) =>
      /\ bump_used(last.h) = 0
      /\ bump_capacity(last.h) = last.a1
      /\ base[last.h] # NULL
      /\ heap[base[last.h]] = "live"
      /\ \A o \in 0..(last.a1 - 1) : read_byte(mem[base[last.h]], o) = 0

C8_Witness ==
    /\ last.op = "create" /\ last.h = H1 /\ last.a1 = MaxCap
    /\ base[H1] # NULL
    /\ bump_capacity(H1) = MaxCap

(***************************************************************************)
(* C9. bump_read_i32(o) returns exactly the value v of the last            *)
(* bump_write_i32(o, v), for every int32 v and every o with [o, o+4)       *)
(* inside the buffer, when no write since has touched bytes o .. o+3.      *)
(***************************************************************************)
C9_I32RoundTrip ==
    /\ (~ub /\ last.op = "read_i32") =>
         \A w \in written[last.h] :
           (w.kind = "i32" /\ w.off = last.a1) => last.ret = w.val
    /\ \A h \in Handles : \A w \in written[h] :
         (w.kind = "i32" /\ InBuffer(h, w.off, 4))
           => read_i32(mem[base[h]], w.off, bigEndian) = w.val

\* A negative value read back after a later write elsewhere in the buffer.
C9_Witness ==
    /\ ~ub /\ last.op = "read_i32" /\ last.ret < -1
    /\ writes[H1] = 2 /\ Cardinality(written[H1]) = 2
    /\ \E w \in written[H1] : w.kind = "i32" /\ w.off = last.a1 /\ w.val = last.ret

(***************************************************************************)
(* C10. bump_read_byte(o) after bump_write_byte(o, v) returns v for every  *)
(* v in 0..255, and for every int32 v it returns v mod 256, a value in     *)
(* 0..255 and never a negative number.                                     *)
(***************************************************************************)
C10_ByteRoundTrip ==
    (~ub /\ last.op = "read_byte") =>
      /\ 0 <= last.ret /\ last.ret <= 255
      /\ \A w \in written[last.h] :
           (w.kind = "byte" /\ w.off = last.a1) =>
             /\ last.ret = w.val % 256
             /\ (0 <= w.val /\ w.val <= 255) => last.ret = w.val

\* 255 written and read back as 255.
C10_Witness ==
    /\ ~ub /\ last.op = "read_byte" /\ last.ret = 255
    /\ \E w \in written[H1] : w.kind = "byte" /\ w.off = last.a1 /\ w.val = 255

(***************************************************************************)
(* C11. For an arena created with capacity > 0, under a host that          *)
(* eventually runs the finalizer: the buffer is eventually freed; it is    *)
(* freed exactly once, whether bump_destroy or the finalizer comes first;  *)
(* and once freed the buffer stays absent for ever.  (A run in which a     *)
(* caller's access had undefined behaviour is not followed further.)       *)
(***************************************************************************)
Freed(h) == Created(h) /\ given[h] > 0 /\ base[h] = NULL /\ frees[h] = 1

C11_EventuallyFreedOnce ==
    /\ \A h \in Handles :
         (st[h] = "live" /\ given[h] > 0)
           ~> ((st[h] = "collected" /\ Freed(h)) \/ ub)
    /\ [](\A h \in Handles : frees[h] <= 1 /\ (given[h] <= 0 => frees[h] = 0))
    /\ [][\A h \in Handles : Freed(h) => Freed(h)']_vars

\* The finalizer run after an explicit destroy had freed the buffer.
C11_Witness ==
    /\ st[H1] = "collected" /\ Freed(H1)
    /\ last.op = "finalize" /\ last.h = H1 /\ last.pre = NULL
    /\ st[H2] = "none"

(***************************************************************************)
(* C12. A GenArray created with length n > 0 reports gen_length() = n for  *)
(* its whole lifetime; gen_get(i) is 0 for every 0 <= i < n before any     *)
(* set, and after any in-range gen_set calls it is the value of the most   *)
(* recent gen_set(i, v), or 0 if there was none: a set at one index leaves *)
(* every other index as it was.                                            *)
(***************************************************************************)
Expected(g, i) == IF i \in DOMAIN gen[g].shadow THEN gen[g].shadow[i] ELSE 0

C12_GenArrayKeepsLastSet ==
    \A g \in Handles :
      (gen[g].st # "none" /\ gen[g].asked > 0) =>
        /\ gen_length(g) = gen[g].asked
        /\ (~ub /\ gen[g].st = "live" /\ gen[g].data # NULL) =>
             \A i \in 0..(gen[g].asked - 1) :
               read_i32(mem[gen[g].data], elem_offset(i), bigEndian) = Expected(g, i)
        /\ (~ub /\ last.op = "gen_get" /\ last.h = g) =>
             last.ret = Expected(g, last.a1)

\* Two neighbouring elements set, the first then read back.
C12_Witness ==
    /\ ~ub /\ last.op = "gen_get" /\ last.h = H1 /\ last.a1 = 0
    /\ gen[H1].asked = MaxLen
    /\ DOMAIN gen[H1].shadow = {0, 1}
    /\ gen[H1].shadow[1] = -1
    /\ last.ret = 16909060

(***************************************************************************)
(* C13. For one GenArray handle, gen_destroy (any number of calls) and the *)
(* host's gen_finalize never both free: the data is freed at most once,    *)
(* the first release sets the data pointer to NULL and every later release *)
(* changes nothing.                                                        *)
(***************************************************************************)
C13_GenReleaseFreesOnce ==
    [][\A g \in Handles :
         (last'.op \in {"gen_destroy", "gen_finalize"} /\ last'.h = g) =>
           /\ gen'[g].frees <= 1
           /\ gen'[g].data = NULL
           /\ ~ub'
           /\ gen[g].data # NULL =>
                /\ gen'[g].frees = gen[g].frees + 1
                /\ heap[gen[g].data] = "live"
                /\ heap'[gen[g].data] = "freed"
           /\ gen[g].data = NULL =>
                /\ gen'[g].frees = gen[g].frees
                /\ heap' = heap
                /\ mem' = mem
      ]_vars

\* The finalizer run after gen_destroy had freed the data.
C13_Witness ==
    /\ last.op = "gen_finalize" /\ last.h = H1 /\ last.pre = NULL
    /\ gen[H1].st = "collected"
    /\ gen[H1].asked > 0
    /\ gen[H1].frees = 1

(***************************************************************************)
(* C14. A bump_alloc(size, align) that succeeds from cursor offset returns *)
(* the smallest multiple of align that is >= offset, for every positive    *)
(* align, power of two or not; the new cursor is that value plus size;     *)
(* capacity and the buffer are unchanged.                                  *)
(***************************************************************************)
C14_SuccessReturnsRoundUp ==
    [][\A h \in Handles :
         (last'.op = "alloc" /\ last'.h = h /\ last'.ret # -1) =>
           LET size == last'.a1
               align == last'.a2
               ret == last'.ret
           IN  /\ size > 0 /\ align > 0
               /\ ret = RoundUp(offset[h], align)
               /\ ret >= offset[h] /\ ret % align = 0
               /\ \A m \in offset[h]..ret : m % align = 0 => m = ret
               /\ offset'[h] = ret + size
               /\ capacity' = capacity
               /\ base' = base /\ heap' = heap /\ mem' = mem
      ]_vars

\* An alignment of 3 that needed padding, after an earlier allocation.
C14_Witness ==
    /\ last.op = "alloc" /\ last.ret # -1 /\ last.a2 = 3
    /\ last.pre % 3 # 0 /\ last.ret > last.pre
    /\ offset[H1] = last.ret + last.a1
    /\ Len(hist[H1]) >= 2

(***************************************************************************)
(* C16. A bump_alloc that returns -1 leaves the arena as it was: offset,   *)
(* capacity, the presence of the buffer and its bytes are unchanged, so no *)
(* padding is consumed and a later request sees the same cursor.           *)
(***************************************************************************)
C16_FailedAllocChangesNothing ==
    [][\A h \in Handles :
         (last'.op = "alloc" /\ last'.h = h /\ last'.ret = -1) =>
           /\ offset' = offset
           /\ capacity' = capacity
           /\ st' = st /\ base' = base /\ heap' = heap
           /\ mem' = mem
           /\ hist' = hist
           /\ ~ub'
           /\ \A rq \in UseRequests :
                alloc(offset'[h], capacity'[h], rq[1], rq[2])
                  = alloc(offset[h], capacity[h], rq[1], rq[2])
      ]_vars

\* A request refused by the size check after padding would have been needed,
\* on a buffer that holds written bytes.
C16_Witness ==
    /\ last.op = "alloc" /\ last.ret = -1
    /\ last.a1 > 0 /\ last.a2 > 0 /\ last.pre % last.a2 # 0
    /\ offset[H1] = last.pre /\ offset[H1] > 0
    /\ base[H1] # NULL /\ mem[base[H1]] # EmptyBlock
    /\ last.a2 - (last.pre % last.a2) <= capacity[H1] - offset[H1]

(***************************************************************************)
(* C17. Whenever bump_alloc succeeds the arena's buffer is present: after  *)
(* no sequence of create, allocate, reset, destroy and finalize does       *)
(* bump_alloc return a non-negative offset on an arena whose buffer is     *)
(* absent.                                                                 *)
(***************************************************************************)
C17_AllocSucceedsOnlyWithBuffer ==
    (last.op = "alloc" /\ last.ret # -1) =>
      /\ base[last.h] # NULL
      /\ heap[base[last.h]] = "live"

(***************************************************************************)
(* C15. In every reachable arena state, for any int32 capacity given to    *)
(* bump_create (negative values and the extremes included) and every int32 *)
(* size and align, each intermediate value of bump_alloc (offset % align,  *)
(* align - remainder, capacity - offset, offset + padding,                 *)
(* capacity - aligned, aligned + size) lies within the signed 32-bit       *)
(* range: no signed overflow occurs.                                       *)
(***************************************************************************)
C15_NoSignedOverflow ==
    /\ ~ub
    /\ \A h \in Handles : \A rq \in BigRequests :
         LET size == rq[1]
             align == rq[2]
             off == offset[h]
             cap == capacity[h]
         IN  /\ ~alloc(off, cap, size, align).ovf
             /\ (size > 0 /\ align > 0) =>
                  LET remainder == CRem(off, align)
                      padding == padding_of(remainder, align)
                  IN  /\ 0 <= remainder /\ remainder < align
                      /\ ~SubOvf(align, remainder)
                      /\ ~SubOvf(cap, off)
                      /\ padding <= Sub32(cap, off) =>
                           /\ ~AddOvf(off, padding)
                           /\ ~SubOvf(cap, Add32(off, padding))
                           /\ size <= Sub32(cap, Add32(off, padding)) =>
                                ~AddOvf(Add32(off, padding), size)

\* The cursor one byte below the largest capacity and a request whose padding
\* would carry it past INT32_MAX: refused, the cursor left where it was.
C15_Witness ==
    /\ ~ub
    /\ capacity[H1] = MaxInt32
    /\ last.op = "alloc" /\ last.pre = MaxInt32 - 1 /\ last.a2 = 4 /\ last.ret = -1
    /\ offset[H1] = MaxInt32 - 1

(***************************************************************************)
(* C18. bump_capacity returns the value given to bump_create after every   *)
(* operation (allocate, reset, accessors, destroy, finalize), and          *)
(* bump_used never decreases from one step to the next except in a step    *)
(* that is bump_reset.                                                     *)
(***************************************************************************)
C18_CapacityFixedUsedMonotone ==
    /\ [](\A h \in Handles : Created(h) => bump_capacity(h) = given[h])
    /\ [][\A h \in Handles :
            /\ Created(h) => bump_capacity(h)' = bump_capacity(h)
            /\ bump_used(h)' < bump_used(h) => (last'.op = "reset" /\ last'.h = h)
         ]_vars

\* A collected arena that was allocated from, reset, allocated from again and
\* written to: the capacity is still the one given.
C18_Witness ==
    /\ st[H1] = "collected"
    /\ bump_capacity(H1) = MaxCap /\ given[H1] = MaxCap
    /\ epoch[H1] = 1 /\ writes[H1] = 2
    /\ bump_used(H1) > 0 /\ hist[H1][Len(hist[H1])].epoch = 1

(***************************************************************************)
(* C19. bump_reset changes only the cursor: capacity, the presence of the  *)
(* buffer and every byte of it are the same after the call as before, so a *)
(* value written before the reset is read back unchanged at the same       *)
(* offset after it.                                                        *)
(***************************************************************************)
ReadsBack(m, w, big) ==
    CASE w.kind = "i32" -> read_i32(m, w.off, big) = w.val
      [] w.kind = "f64" -> read_f64(m, w.off, big) = w.val
      [] w.kind = "byte" -> read_byte(m, w.off) = w.val % 256

C19_ResetChangesOnlyCursor ==
    [][\A h \in Handles :
         (last'.op = "reset" /\ last'.h = h) =>
           /\ offset'[h] = 0
           /\ capacity' = capacity
           /\ st' = st /\ base' = base /\ heap' = heap
           /\ mem' = mem
           /\ \A w \in written[h] :
                InBuffer(h, w.off, w.n) =>
                  /\ ReadsBack(mem[base[h]], w, bigEndian)
                  /\ ReadsBack(mem'[base'[h]], w, bigEndian')
      ]_vars

\* A reset of an arena holding a double at 0, with the cursor past it.
C19_Witness ==
    /\ last.op = "reset" /\ last.pre >= 8
    /\ offset[H1] = 0
    /\ base[H1] # NULL
    /\ \E w \in written[H1] : w.kind = "f64" /\ w.off = 0
    /\ read_f64(mem[base[H1]], 0, bigEndian) = F64Value

(***************************************************************************)
(* C20. Between resets, a write accessor (bump_write_i32, bump_write_f64   *)
(* or bump_write_byte) whose bytes lie inside one range returned by        *)
(* bump_alloc changes only bytes of that range: the bytes of every other   *)
(* range returned since the last reset, offset and capacity are unchanged, *)
(* so values stored in distinct allocations never interfere.  (A range     *)
(* handed out after bump_destroy has no buffer behind it - see C17 - and a *)
(* write there is undefined; the property speaks of a present buffer.)     *)
(***************************************************************************)
Width(op) ==
    CASE op = "write_i32" -> 4
      [] op = "write_f64" -> 8
      [] op = "write_byte" -> 1

\* The bytes [o, o + n) lie inside the region r.
Inside(o, n, r) == r.start <= o /\ o + n <= r.start + r.size

\* The regions bump_alloc has returned since the last reset.
Current(h) == {i \in DOMAIN hist[h] : hist[h][i].epoch = epoch[h]}

====
